---------------------------- MODULE Spec2Model ----------------------------
(***************************************************************************)
(* Model of system-brain-agent/agent.py: one scheduled run probes the      *)
(* monitored service four times, appends one event to events.jsonl and, on *)
(* a failing verdict, writes an evidence bundle and prunes the evidence    *)
(* directory to EVIDENCE_KEEP bundles.                                     *)
(*                                                                         *)
(* Strings that the code compares, rewrites or sorts (timestamps, bundle   *)
(* names, command output) are sequences of one-character strings; Code     *)
(* gives each character its code point, which is what Python's str order   *)
(* compares.  A file is represented by its name, a bundle directory by the *)
(* set of file names in it, the event log by its sequence of lines (one    *)
(* json.dumps line per write_event call, which emits no raw newline).      *)
(***************************************************************************)
EXTENDS Integers, Sequences, FiniteSets, TLC

(***************************************************************************)
(* Bounds of the model.                                                    *)
(***************************************************************************)
MaxSec == 1
MaxUsec == 1
MaxRuns == 2
MaxPrior == 2
MaxKeep == 1
MaxSnapFail == 2
MaxDelFail == 2

VARIABLES
    now,         \* wall clock: index of the current instant (see TimeOf)
    keep,        \* EVIDENCE_KEEP
    pc,          \* the statement of main() about to execute
    ts,          \* main's local ts
    results,     \* probe verdicts obtained so far in this run, in call order
    log,         \* EVENT_LOG: the lines of events.jsonl
    store,       \* EVIDENCE_DIR: bundle directory name -> set of file names
    exitStatus,  \* exit status of the last finished process
    runs,        \* number of runs the scheduler has started
    called,      \* history: snapshot / prune_evidence calls made by this run
    store0,      \* history: EVIDENCE_DIR when this run started
    lastFailed   \* history: bundles whose deletion raised in the last prune

vars == <<now, keep, pc, ts, results, log, store, exitStatus, runs, called,
          store0, lastFailed>>

----------------------------------------------------------------------------
(***************************************************************************)
(* Strings.                                                                *)
(***************************************************************************)
Code(c) ==
    CASE c = "+" -> 43 [] c = "-" -> 45 [] c = "." -> 46
      [] c = "0" -> 48 [] c = "1" -> 49 [] c = "2" -> 50 [] c = "3" -> 51
      [] c = "4" -> 52 [] c = "5" -> 53 [] c = "6" -> 54 [] c = "7" -> 55
      [] c = "8" -> 56 [] c = "9" -> 57 [] c = ":" -> 58
      [] c = "T" -> 84 [] c = "Z" -> 90
      [] c = "a" -> 97 [] c = "c" -> 99 [] c = "e" -> 101 [] c = "i" -> 105
      [] c = "n" -> 110 [] c = "t" -> 116 [] c = "v" -> 118

\* Python's str < str: code point order, a proper prefix sorts first.
StrLess(a, b) ==
    LET n == IF Len(a) < Len(b) THEN Len(a) ELSE Len(b)
        diff == {i \in 1..n : a[i] # b[i]}
    IN  IF diff = {} THEN Len(a) < Len(b)
        ELSE LET i == CHOOSE j \in diff : \A m \in diff : j <= m
             IN  Code(a[i]) < Code(b[i])

StartsWith(s, p) ==
    /\ Len(p) <= Len(s)
    /\ SubSeq(s, 1, Len(p)) = p

\* str.replace(old, new) for a non-empty old: leftmost non-overlapping matches.
RECURSIVE Replace(_, _, _)
Replace(s, old, new) ==
    IF s = <<>> THEN <<>>
    ELSE IF StartsWith(s, old)
         THEN new \o Replace(SubSeq(s, Len(old) + 1, Len(s)), old, new)
         ELSE <<Head(s)>> \o Replace(Tail(s), old, new)

\* `sub in s`
Contains(s, sub) ==
    \E i \in 1..(Len(s) + 1) : StartsWith(SubSeq(s, i, Len(s)), sub)

DigitChars == <<"0", "1", "2", "3", "4", "5", "6", "7", "8", "9">>

Digit(d) == DigitChars[d + 1]

\* %02d
TwoDigits(n) == <<Digit((n \div 10) % 10), Digit(n % 10)>>

\* %06d
SixDigits(n) ==
    <<Digit((n \div 100000) % 10), Digit((n \div 10000) % 10),
      Digit((n \div 1000) % 10), Digit((n \div 100) % 10),
      Digit((n \div 10) % 10), Digit(n % 10)>>

----------------------------------------------------------------------------
(***************************************************************************)
(* The clock.  Instants are numbered in chronological order; instant i is  *)
(* second i \div (MaxUsec+1), microsecond i % (MaxUsec+1) of one fixed     *)
(* minute.                                                                 *)
(***************************************************************************)
LastInstant == (MaxSec + 1) * (MaxUsec + 1) - 1

Instants == 0..LastInstant

TimeOf(i) == [sec |-> i \div (MaxUsec + 1), usec |-> i % (MaxUsec + 1)]

\* The date, hour and minute fields of isoformat(): fixed width, zero padded.
MinutePrefix ==
    <<"2", "0", "2", "6", "-", "1", "1", "-", "0", "3", "T",
      "1", "7", ":", "5", "3", ":">>

\* datetime.isoformat() of an aware UTC datetime: the fraction is omitted
\* when microsecond is 0.
Isoformat(t) ==
    MinutePrefix \o TwoDigits(t.sec)
        \o (IF t.usec = 0 THEN <<>> ELSE <<".">> \o SixDigits(t.usec))
        \o <<"+", "0", "0", ":", "0", "0">>

utc_ts(t) == Replace(Isoformat(t), <<"+", "0", "0", ":", "0", "0">>, <<"Z">>)

\* The name of the bundle directory under EVIDENCE_DIR.
evidence_bundle_dir(stamp) == Replace(stamp, <<":">>, <<"-">>)

----------------------------------------------------------------------------
(***************************************************************************)
(* The command runner and the probes.                                      *)
(***************************************************************************)
\* run(): the CmdResult of a finished subprocess, or of a raised exception
\* (timeout, spawn error).
run(raised, returncode, stdout) ==
    IF raised
    THEN [ok |-> FALSE, rc |-> 1, out |-> <<>>]
    ELSE [ok |-> (returncode = 0), rc |-> returncode, out |-> stdout]

ReturnCodes == {0, 1, 3}

ActiveOutputs == {<<"a", "c", "t", "i", "v", "e">>,
                  <<"i", "n", "a", "c", "t", "i", "v", "e">>, <<>>}

PortOutputs == {<<>>, <<":", "1", "1", "4", "3", "4">>,
                <<":", "1", "1", "4", "3", "5">>}

ListOutputs == {<<>>, <<"n">>}

check_ollama_active(r) == r.ok /\ r.out = <<"a", "c", "t", "i", "v", "e">>

check_port(r) == Contains(r.out, <<"1", "1", "4", "3", "4">>)

check_ollama_list(r) == r.ok /\ Len(r.out) > 0

check_compile(dirExists, r) == IF ~dirExists THEN FALSE ELSE r.ok

ProbeOrder ==
    <<"check_ollama_active", "check_port", "check_ollama_list", "check_compile">>

StatusKey(probe) ==
    CASE probe = "check_ollama_active" -> "ollama_active"
      [] probe = "check_port" -> "port_11434_listening"
      [] probe = "check_ollama_list" -> "ollama_list_ok"
      [] probe = "check_compile" -> "system_brain_compile_ok"

StatusKeys == {"ollama_active", "port_11434_listening", "ollama_list_ok",
               "system_brain_compile_ok"}

\* The status dict of main, built from the verdicts the probes returned.
StatusOf(res) ==
    [k \in {StatusKey(res[i].probe) : i \in DOMAIN res} |->
        LET i == CHOOSE j \in DOMAIN res : StatusKey(res[j].probe) = k
        IN  res[i].ok]

\* all(status.values())
OverallOf(status) == \A k \in DOMAIN status : status[k]

EventOf(stamp, res) ==
    [timestamp |-> stamp,
     overall_ok |-> OverallOf(StatusOf(res)),
     status |-> StatusOf(res)]

\* (fault) the log is opened with "w"
write_event_truncating(lines, event) == <<event>>

\* write_event: open(..., "a") and write one line.
write_event(lines, event) == Append(lines, event)

----------------------------------------------------------------------------
(***************************************************************************)
(* The statements of main(), in order.                                     *)
(***************************************************************************)
\* (fault) the bundle is captured before the event is recorded
MainStepsBundleFirst(overall) ==
    ProbeOrder
        \o (IF overall THEN <<>> ELSE <<"snapshot">>)
        \o <<"write_event">>
        \o (IF overall THEN <<>> ELSE <<"prune_evidence">>)

MainSteps(overall) ==
    ProbeOrder \o <<"write_event">>
        \o (IF overall THEN <<>> ELSE <<"snapshot", "prune_evidence">>)

\* (fault) a failed probe skips the probes after it
NextStepShortCircuit(step, overall) ==
    LET s == MainSteps(overall)
        i == CHOOSE j \in DOMAIN s : s[j] = step
    IN  IF i < Len(ProbeOrder) /\ ~overall THEN "write_event"
        ELSE IF i = Len(s) THEN "exit" ELSE s[i + 1]

NextStep(step, overall) ==
    LET s == MainSteps(overall)
        i == CHOOSE j \in DOMAIN s : s[j] = step
    IN  IF i = Len(s) THEN "exit" ELSE s[i + 1]

----------------------------------------------------------------------------
(***************************************************************************)
(* The evidence directory.                                                 *)
(***************************************************************************)
\* The files snapshot() writes into a bundle, in the order it writes them.
SnapshotFiles ==
    <<"details.json", "systemctl_ollama_status.txt", "journal_ollama_tail.txt",
      "ports_ss_full.txt", "ip_addr.txt", "nmcli_device_status.txt",
      "ollama_list.txt", "compile_check.txt">>

AllFiles == {SnapshotFiles[i] : i \in DOMAIN SnapshotFiles}

\* sorted(p.rglob("*"), reverse=True) over the names above.
ReverseSortedFiles ==
    <<"systemctl_ollama_status.txt", "ports_ss_full.txt", "ollama_list.txt",
      "nmcli_device_status.txt", "journal_ollama_tail.txt", "ip_addr.txt",
      "details.json", "compile_check.txt">>

\* snapshot(ts, details) on the directory tree st.  failAt = 0: every
\* operation succeeds.  failAt = 1: bundle.mkdir raises.  failAt = k >= 2:
\* the (k-1)-th write_file raises, after the earlier ones were written.
snapshot(st, stamp, failAt) ==
    LET bundle == evidence_bundle_dir(stamp)
        old == IF bundle \in DOMAIN st THEN st[bundle] ELSE {}
        written == IF failAt = 0 THEN AllFiles
                   ELSE {SnapshotFiles[i] : i \in 1..(failAt - 2)}
    IN  IF failAt = 1 THEN st
        ELSE [n \in DOMAIN st \cup {bundle} |->
                 IF n = bundle THEN old \cup written ELSE st[n]]

\* Ways the snapshot of one run can go.
SnapshotOutcomes ==
    {k \in 0..MaxSnapFail : k <= Len(SnapshotFiles) + 1}

\* sorted(..., key=lambda p: p.name)
RECURSIVE SortedByName(_)
SortedByName(S) ==
    IF S = {} THEN <<>>
    ELSE LET m == CHOOSE x \in S : \A y \in S \ {x} : StrLess(x, y)
         IN  <<m>> \o SortedByName(S \ {m})

\* The files unlink() is called on, in call order.
UnlinkOrder(files) == SelectSeq(ReverseSortedFiles, LAMBDA f : f \in files)

\* The body of the for loop of prune_evidence for one bundle holding
\* `files`.  f = 0: every operation succeeds and the directory is gone.
\* f = 1: p.rmdir() raises after every file was unlinked.  f = j >= 2: the
\* (j-1)-th unlink raises.  The exception is swallowed.
DeleteBundle(files, f) ==
    IF f = 0 THEN [removed |-> TRUE, files |-> {}]
    ELSE IF f = 1 THEN [removed |-> FALSE, files |-> {}]
    ELSE [removed |-> FALSE,
          files |-> files \ {UnlinkOrder(files)[i] : i \in 1..(f - 2)}]

\* Ways the deletion of a bundle holding `files` can go.
DeleteOutcomes(files) ==
    {f \in 0..MaxDelFail : f <= Cardinality(files) + 1}

\* (fault) the newest bundles are taken instead of the oldest
ExcessBundlesNewest(st, k) ==
    LET bundles == SortedByName(DOMAIN st)
        excess == Len(bundles) - k
    IN  IF excess <= 0 THEN <<>>
        ELSE IF excess >= Len(bundles) THEN bundles
        ELSE SubSeq(bundles, Len(bundles) - excess + 1, Len(bundles))

\* bundles[:excess] (a slice stops at the end of the list)
ExcessBundles(st, k) ==
    LET bundles == SortedByName(DOMAIN st)
        excess == Len(bundles) - k
    IN  IF excess <= 0 THEN <<>>
        ELSE IF excess >= Len(bundles) THEN bundles
        ELSE SubSeq(bundles, 1, excess)

\* (fault) the try encloses the whole loop: the first failure ends it
RECURSIVE PruneLoopAbort(_, _, _, _)
PruneLoopAbort(st, failed, todo, fail) ==
    IF todo = <<>> THEN [store |-> st, failed |-> failed]
    ELSE LET p == Head(todo)
             d == DeleteBundle(st[p], fail[p])
         IN  IF d.removed
             THEN PruneLoopAbort([n \in DOMAIN st \ {p} |-> st[n]], failed,
                                 Tail(todo), fail)
             ELSE [store |-> [st EXCEPT ![p] = d.files],
                   failed |-> failed \cup {p}]

\* for p in bundles[:excess]: try: ... except Exception: pass
\* `failed` collects the bundles whose deletion raised.
RECURSIVE PruneLoop(_, _, _, _)
PruneLoop(st, failed, todo, fail) ==
    IF todo = <<>> THEN [store |-> st, failed |-> failed]
    ELSE LET p == Head(todo)
             d == DeleteBundle(st[p], fail[p])
         IN  IF d.removed
             THEN PruneLoop([n \in DOMAIN st \ {p} |-> st[n]], failed,
                            Tail(todo), fail)
             ELSE PruneLoop([st EXCEPT ![p] = d.files], failed \cup {p},
                            Tail(todo), fail)

\* (fault) only a negative count disables pruning
prune_evidence_keep_zero(st, k, fail) ==
    IF k < 0 THEN [store |-> st, failed |-> {}]
    ELSE PruneLoop(st, {}, ExcessBundles(st, k), fail)

\* prune_evidence(keep) on the directory tree st; fail[p] says how the
\* deletion of bundle p goes if it is attempted.  The result is the tree
\* afterwards and the bundles whose deletion raised.
prune_evidence(st, k, fail) ==
    IF k <= 0 THEN [store |-> st, failed |-> {}]
    ELSE PruneLoop(st, {}, ExcessBundles(st, k), fail)

----------------------------------------------------------------------------
(***************************************************************************)
(* The state left by earlier runs: `prior` failing runs, one per instant   *)
(* 0..prior-1, whose bundles are all still in the evidence directory (the  *)
(* retention count was not reached, or pruning was disabled).              *)
(***************************************************************************)
PriorResults == [i \in 1..Len(ProbeOrder) |-> [probe |-> ProbeOrder[i], ok |-> FALSE]]

PriorLog(prior) ==
    [i \in 1..prior |-> EventOf(utc_ts(TimeOf(i - 1)), PriorResults)]

PriorStore(prior) ==
    [n \in {evidence_bundle_dir(utc_ts(TimeOf(i))) : i \in 0..(prior - 1)} |->
        AllFiles]

KeepValues == (-1)..MaxKeep

Init ==
    /\ keep \in KeepValues
    /\ \E prior \in 0..MaxPrior :
          /\ prior <= LastInstant
          /\ now = prior - 1
          /\ log = PriorLog(prior)
          /\ store = PriorStore(prior)
          /\ store0 = PriorStore(prior)
    /\ pc = "idle"
    /\ ts = <<>>
    /\ results = <<>>
    /\ exitStatus = 0
    /\ runs = 0
    /\ called = {}
    /\ lastFailed = {}

----------------------------------------------------------------------------
(***************************************************************************)
(* The steps of one run.                                                   *)
(***************************************************************************)
\* Control passes to the statement after `step`; falling off the end of
\* main() ends the process with status 0.
Goto(step, res) ==
    LET n == NextStep(step, OverallOf(StatusOf(res)))
    IN  /\ pc' = n
        /\ exitStatus' = IF n = "exit" THEN 0 ELSE exitStatus

\* The scheduler starts the process: ensure_dirs(); ts = utc_ts().
Invoke ==
    /\ pc \in {"idle", "exit"}
    /\ runs < MaxRuns
    /\ \E t \in Instants :
          /\ t > now
          /\ now' = t
          /\ ts' = utc_ts(TimeOf(t))
    /\ pc' = Head(MainSteps(TRUE))
    /\ results' = <<>>
    /\ runs' = runs + 1
    /\ called' = {}
    /\ store0' = store
    /\ lastFailed' = {}
    /\ UNCHANGED <<keep, log, store, exitStatus>>

Probed(step, verdict) ==
    LET res == Append(results, [probe |-> step, ok |-> verdict])
    IN  /\ results' = res
        /\ Goto(step, res)
        /\ UNCHANGED <<now, keep, ts, log, store, runs, called, store0, lastFailed>>

CheckOllamaActive ==
    /\ pc = "check_ollama_active"
    /\ \E raised \in BOOLEAN, rc \in ReturnCodes, out \in ActiveOutputs :
          Probed("check_ollama_active", check_ollama_active(run(raised, rc, out)))

\* The command ends in `|| true`: it returns 0 unless run() itself raises.
CheckPort ==
    /\ pc = "check_port"
    /\ \E raised \in BOOLEAN, out \in PortOutputs :
          Probed("check_port", check_port(run(raised, 0, out)))

CheckOllamaList ==
    /\ pc = "check_ollama_list"
    /\ \E raised \in BOOLEAN, rc \in ReturnCodes, out \in ListOutputs :
          Probed("check_ollama_list", check_ollama_list(run(raised, rc, out)))

CheckCompile ==
    /\ pc = "check_compile"
    /\ \E dirExists \in BOOLEAN, raised \in BOOLEAN, rc \in ReturnCodes :
          Probed("check_compile", check_compile(dirExists, run(raised, rc, <<>>)))

\* status = {...}; overall = all(...); event = {...}; write_event(event)
RecordEvent ==
    /\ pc = "write_event"
    /\ log' = write_event(log, EventOf(ts, results))
    /\ Goto("write_event", results)
    /\ UNCHANGED <<now, keep, ts, results, store, runs, called, store0, lastFailed>>

\* snapshot(ts, ...).  An OSError raised by mkdir or write_file is caught
\* nowhere: the interpreter prints the traceback and exits with status 1.
Snapshot ==
    /\ pc = "snapshot"
    /\ called' = called \cup {"snapshot"}
    /\ \E failAt \in SnapshotOutcomes :
          /\ store' = snapshot(store, ts, failAt)
          /\ IF failAt = 0
             THEN Goto("snapshot", results)
             ELSE pc' = "exit" /\ exitStatus' = 1
    /\ UNCHANGED <<now, keep, ts, results, log, runs, store0, lastFailed>>

\* prune_evidence(EVIDENCE_KEEP)
PruneEvidence ==
    /\ pc = "prune_evidence"
    /\ called' = called \cup {"prune_evidence"}
    /\ \E fail \in [DOMAIN store -> 0..MaxDelFail] :
          /\ \A p \in DOMAIN store : fail[p] \in DeleteOutcomes(store[p])
          /\ LET r == prune_evidence(store, keep, fail)
             IN  /\ store' = r.store
                 /\ lastFailed' = r.failed
    /\ Goto("prune_evidence", results)
    /\ UNCHANGED <<now, keep, ts, results, log, runs, store0>>

Next ==
    \/ Invoke
    \/ CheckOllamaActive
    \/ CheckPort
    \/ CheckOllamaList
    \/ CheckCompile
    \/ RecordEvent
    \/ Snapshot
    \/ PruneEvidence

Spec == Init /\ [][Next]_vars

----------------------------------------------------------------------------
(***************************************************************************)
(* Properties.                                                             *)
(***************************************************************************)
Overall == OverallOf(StatusOf(results))

Bundle == evidence_bundle_dir(ts)

\* The k elements of S that sort last / first by name.
Greatest(S, k) == {n \in S : Cardinality({m \in S : StrLess(n, m)}) < k}

Oldest(S, k) == {n \in S : Cardinality({m \in S : StrLess(m, n)}) < k}

\* The lines of the log that carry the timestamp of the current run.
OwnLines == {i \in DOMAIN log : log[i].timestamp = ts}

\* C1: prune_evidence(K) with K >= 1 in which no deletion fails leaves
\* exactly the min(M, K) bundles whose names are greatest, each with its
\* contents untouched, and removes the others; with M <= K nothing changes.
C1_PruneKeepsNewest ==
    [][(pc = "prune_evidence" /\ keep >= 1 /\ lastFailed' = {}) =>
          /\ DOMAIN store' = Greatest(DOMAIN store, keep)
          /\ \A n \in DOMAIN store' : store'[n] = store[n]
          /\ Cardinality(DOMAIN store) <= keep => store' = store]_vars

\* A prune with no failure that removed at least two bundles.
C1_Witness ==
    /\ pc = "exit"
    /\ "prune_evidence" \in called
    /\ keep >= 1
    /\ lastFailed = {}
    /\ Cardinality(DOMAIN store) = keep
    /\ Cardinality(DOMAIN store0) >= keep + 1
    /\ Bundle \in DOMAIN store

\* C2: with keep <= 0 no step of any run removes a bundle or a file of a
\* bundle, and prune_evidence leaves the evidence directory as it is.
C2_NoPruneWhenDisabled ==
    [][keep <= 0 =>
          /\ \A n \in DOMAIN store : n \in DOMAIN store' /\ store[n] \subseteq store'[n]
          /\ pc = "prune_evidence" => store' = store]_vars

\* prune_evidence(0) returned with several bundles in the directory.
C2_Witness ==
    /\ pc = "exit"
    /\ "prune_evidence" \in called
    /\ keep = 0
    /\ runs = 2
    /\ Cardinality(DOMAIN store) >= 3

\* C3: the log is append-only: a write_event call adds one line, the event
\* of the calling run, after the lines already there; no other step changes
\* the log; the earlier lines stay where they are, unmodified.
C3_LogAppendOnly ==
    [][/\ Len(log') >= Len(log)
       /\ SubSeq(log', 1, Len(log)) = log
       /\ pc = "write_event" =>
             /\ Len(log') = Len(log) + 1
             /\ log'[Len(log')].timestamp = ts
             /\ log'[Len(log')].overall_ok = Overall
             /\ \A i \in DOMAIN results :
                   log'[Len(log')].status[StatusKey(results[i].probe)] = results[i].ok
       /\ pc # "write_event" => log' = log]_vars

\* Two runs have written their events after earlier lines.
C3_Witness ==
    /\ runs = 2
    /\ pc = "exit"
    /\ Len(log) >= 3
    /\ log[Len(log)].timestamp = ts

\* C4: every run ends with exit status 0.
C4_AlwaysExitsZero == pc = "exit" => exitStatus = 0

\* C5: a finished run has called snapshot and prune_evidence if and only if
\* its verdict is false, and a passing run left the evidence directory as
\* it found it.
C5_BundleAndPruneIffFailing ==
    pc = "exit" =>
        /\ ("snapshot" \in called) <=> ~Overall
        /\ ("prune_evidence" \in called) <=> ~Overall
        /\ Overall => store = store0

\* C6: the bundle name of a run differs from, and sorts after, the bundle
\* name of every earlier run (the lines of the log with another timestamp:
\* runs do not overlap and the clock only advances).
C6_NamesInjectiveAndOrdered ==
    pc # "idle" =>
        \A i \in DOMAIN log :
            log[i].timestamp # ts =>
                /\ evidence_bundle_dir(log[i].timestamp) # Bundle
                /\ StrLess(evidence_bundle_dir(log[i].timestamp), Bundle)

\* C7: the probes run in the fixed order whatever the earlier verdicts; once
\* the probes are done all four have run; every recorded status has exactly
\* the four boolean entries and overall_ok is their conjunction.
C7_AllProbesAlwaysRun ==
    /\ \A i \in DOMAIN results : i <= Len(ProbeOrder) /\ results[i].probe = ProbeOrder[i]
    /\ pc \in {"write_event", "snapshot", "prune_evidence", "exit"} =>
          Len(results) = Len(ProbeOrder)
    /\ \A i \in DOMAIN log :
          /\ DOMAIN log[i].status = StatusKeys
          /\ \A k \in StatusKeys : log[i].status[k] \in BOOLEAN
          /\ log[i].overall_ok =
                (/\ log[i].status["ollama_active"]
                 /\ log[i].status["port_11434_listening"]
                 /\ log[i].status["ollama_list_ok"]
                 /\ log[i].status["system_brain_compile_ok"])

\* The first probe failed, the last passed, and the event is recorded.
C7_Witness ==
    /\ pc = "exit"
    /\ Len(results) = 4
    /\ ~results[1].ok
    /\ results[4].ok
    /\ OwnLines # {}
    /\ \A i \in OwnLines : ~log[i].overall_ok /\ log[i].status["system_brain_compile_ok"]

\* C8: a run writes at most one event, and exactly one by the time it ends;
\* whenever the run has called snapshot, or its bundle directory exists or
\* differs from what the run found, its event is in the log.
C8_EventBeforeBundle ==
    pc # "idle" =>
        /\ Cardinality(OwnLines) <= 1
        /\ pc \in {"snapshot", "prune_evidence", "exit"} => Cardinality(OwnLines) = 1
        /\ "snapshot" \in called => OwnLines # {}
        /\ store # store0 => OwnLines # {}
        /\ Bundle \in DOMAIN store => OwnLines # {}

\* Bundling failed half way: the run died, its event is in the log.
C8_Witness ==
    /\ pc = "exit"
    /\ exitStatus = 1
    /\ Bundle \in DOMAIN store
    /\ store[Bundle] # AllFiles
    /\ Cardinality(OwnLines) = 1

\* C9: prune_evidence(K), K >= 1, with M bundles: a deletion raises only for
\* one of the M-K oldest bundles; each of those whose deletion does not
\* raise is gone, each whose deletion raises is still there with no file
\* added; every other bundle is untouched; the call returns and the run ends
\* with status 0.
C9_PruneBestEffort ==
    [][(pc = "prune_evidence" /\ keep >= 1) =>
          LET E == Oldest(DOMAIN store, Cardinality(DOMAIN store) - keep)
          IN  /\ lastFailed' \subseteq E
              /\ \A n \in E \ lastFailed' : n \notin DOMAIN store'
              /\ \A n \in lastFailed' :
                    n \in DOMAIN store' /\ store'[n] \subseteq store[n]
              /\ \A n \in DOMAIN store \ E :
                    n \in DOMAIN store' /\ store'[n] = store[n]
              /\ DOMAIN store' \subseteq DOMAIN store
              /\ pc' = "exit"
              /\ exitStatus' = 0]_vars

\* A deletion raised and a bundle later in the loop was deleted all the same.
C9_Witness ==
    /\ pc = "exit"
    /\ "prune_evidence" \in called
    /\ keep >= 1
    /\ exitStatus = 0
    /\ \E f \in lastFailed :
          \E n \in DOMAIN store0 : n \notin DOMAIN store /\ StrLess(f, n)

\* C10: with keep >= 1, the bundle a failing run created is in the evidence
\* directory when the run ends after its prune step.
C10_OwnBundleSurvives ==
    (pc = "exit" /\ keep >= 1 /\ "prune_evidence" \in called) =>
        Bundle \in DOMAIN store

=============================================================================
